---- MODULE Spec2Model ----
(***************************************************************************)
(* A model of trading_bot.py: the TradingBot orchestrator (validated       *)
(* wrappers around the exchange client), the interactive shell and the     *)
(* one-shot command line of main().                                        *)
(*                                                                         *)
(* Strings that the program case-converts (symbols, sides, command lines)  *)
(* are sequences of one-character strings, so that upper() and lower() are *)
(* computed character by character.  A Python value that may be None is a  *)
(* sequence of length at most one: None is << >> and a value x is <<x>>.   *)
(* The exchange client is the environment: every call to it answers with   *)
(* one of the responses of Responses(method, params).                      *)
(***************************************************************************)
EXTENDS Integers, Sequences, FiniteSets, TLC

VARIABLES
    pc,      \* control position: "start", "constructed", "connected",
             \* "dispatching", "interactive", "prompt", "handled",
             \* "exited" (the program); "idle", "returned" (the class, called directly)
    args,    \* the parsed command line of main()
    op,      \* the operation or command being handled, with its inputs
    calls,   \* the calls made to the exchange client while handling op, in order
    result,  \* how op ended: a returned value or a raised exception
    log,     \* what op wrote to the logger
    output   \* what op printed to the console

vars == <<pc, args, op, calls, result, log, output>>

(***************************************************************************)
(* Bounds of the model.                                                    *)
(***************************************************************************)
MaxQty == 1        \* quantities range over -MaxQty..MaxQty
MaxPrice == 1      \* prices and stop prices range over -MaxPrice..MaxPrice
MaxListLen == 2    \* entries in the exchange's published symbol list
MaxTokens == 7     \* tokens of a line typed at the interactive prompt
MaxAssets == 2     \* entries in the asset list of an account payload

(***************************************************************************)
(* Strings and their case conversions (str.upper, str.lower on ASCII).     *)
(***************************************************************************)
Lowers == <<"a","b","c","d","e","f","g","h","i","j","k","l","m",
            "n","o","p","q","r","s","t","u","v","w","x","y","z">>
Uppers == <<"A","B","C","D","E","F","G","H","I","J","K","L","M",
            "N","O","P","Q","R","S","T","U","V","W","X","Y","Z">>

UpperChar(c) ==
    IF \E i \in DOMAIN Lowers : Lowers[i] = c
    THEN Uppers[CHOOSE i \in DOMAIN Lowers : Lowers[i] = c]
    ELSE c

LowerChar(c) ==
    IF \E i \in DOMAIN Uppers : Uppers[i] = c
    THEN Lowers[CHOOSE i \in DOMAIN Uppers : Uppers[i] = c]
    ELSE c

upper(s) == [i \in 1..Len(s) |-> UpperChar(s[i])]
lower(s) == [i \in 1..Len(s) |-> LowerChar(s[i])]

None == << >>
Some(x) == <<x>>

BUY == <<"B","U","Y">>
SELL == <<"S","E","L","L">>

(***************************************************************************)
(* Results, exceptions and log records.                                    *)
(***************************************************************************)
NoExc == [type |-> "none", msg |-> "none"]
Exc(t, m) == [type |-> t, msg |-> m]
Return(v) == [kind |-> "return", value |-> <<v>>, exc |-> NoExc]
Raise(e) == [kind |-> "raise", value |-> << >>, exc |-> e]
NoResult == [kind |-> "none", value |-> << >>, exc |-> NoExc]

Info(m) == [level |-> "INFO", msg |-> m]
Error(m) == [level |-> "ERROR", msg |-> m]

\* what an orchestrator operation did: the client calls it made, how it ended,
\* what it logged
Outcome(c, r, l) == [calls |-> c, result |-> r, log |-> l]

\* the exception classes of Python that `except Exception` catches
IsException(t) == t # "KeyboardInterrupt"

(***************************************************************************)
(* The exchange client (binance.Client), an opaque collaborator.           *)
(***************************************************************************)
EmptyParams == [k \in {} |-> 0]

ClientErrors ==
    {"BinanceAPIException", "BinanceOrderException", "Exception", "KeyboardInterrupt"}

RECURSIVE SeqsUpTo(_, _)
SeqsUpTo(S, n) ==
    IF n = 0 THEN {<< >>}
    ELSE LET shorter == SeqsUpTo(S, n - 1)
         IN  shorter \cup {Append(s, x) : s \in {t \in shorter : Len(t) = n - 1}, x \in S}

\* the entries the exchange may publish: an upper-case symbol with two
\* different descriptions, and a lower-case one
SymbolEntries ==
    { [symbol |-> <<"A","B">>, pricePrecision |-> "1"],
      [symbol |-> <<"A","B">>, pricePrecision |-> "2"],
      [symbol |-> <<"a","b">>, pricePrecision |-> "1"] }

ExchangeLists == SeqsUpTo(SymbolEntries, MaxListLen)

\* an order as the exchange reports it, and a payload that lacks the fields
\* the shell prints
OrderPayloads(params) ==
    { [orderId |-> "1", symbol |-> params.symbol, side |-> "side", type |-> "type",
       origQty |-> "qty", executedQty |-> "0", price |-> "price",
       stopPrice |-> "stop", status |-> "NEW"],
      [status |-> "NEW"] }

\* the entries of an account's asset list: another asset, USDT with and
\* without a wallet balance, and an entry that names no asset
AssetEntries ==
    { [asset |-> "BNB", walletBalance |-> "5.00"],
      [asset |-> "USDT", walletBalance |-> "800.00"],
      [asset |-> "USDT"],
      [walletBalance |-> "5.00"] }

\* the account payloads: each of the three fields is present in some and
\* absent from others
AccountPayloads ==
    { [k \in present |->
          CASE k = "totalWalletBalance" -> "1000.00"
            [] k = "availableBalance" -> "900.00"
            [] k = "assets" -> assets]
      : present \in { {}, {"totalWalletBalance"}, {"availableBalance", "assets"},
                      {"totalWalletBalance", "availableBalance", "assets"} },
        assets \in SeqsUpTo(AssetEntries, MaxAssets) }

TickerPayloads ==
    { [price |-> <<"1">>], [price |-> <<"x">>], [symbol |-> <<"A","B">>] }

Payloads(method, params) ==
    CASE method = "futures_exchange_info" -> ExchangeLists
      [] method = "futures_create_order" -> {<<p>> : p \in OrderPayloads(params)}
      [] method = "futures_get_order" -> {<<p>> : p \in OrderPayloads(params)}
      [] method = "futures_cancel_order" -> {<<p>> : p \in OrderPayloads(params)}
      [] method = "futures_get_open_orders" ->
            {<< >>} \cup {<<p>> : p \in OrderPayloads([symbol |-> <<"A","B">>])}
      [] method = "futures_account" -> {<<p>> : p \in AccountPayloads}
      [] method = "futures_symbol_ticker" -> {<<p>> : p \in TickerPayloads}
      [] method = "get_system_status" -> {<<[status |-> "0"]>>}

\* one call to the client: the request and the answer it got
Call(method, params, outcome, payload) ==
    [method |-> method, params |-> params, outcome |-> outcome, payload |-> payload]

Responses(method, params) ==
    {Call(method, params, "ok", p) : p \in Payloads(method, params)}
    \cup {Call(method, params, e, << >>) : e \in ClientErrors}

ClientExc(c) == Exc(c.outcome, c.method)

(***************************************************************************)
(* Python's float() and int() on a token: None when the conversion raises  *)
(* ValueError.  The tokens of the model are decimal integers with an       *)
(* optional sign, or not numbers at all.                                   *)
(***************************************************************************)
Digits == <<"0","1","2","3","4","5","6","7","8","9">>
IsDigit(c) == \E i \in DOMAIN Digits : Digits[i] = c
DigitValue(c) == (CHOOSE i \in DOMAIN Digits : Digits[i] = c) - 1

RECURSIVE Magnitude(_)
Magnitude(ds) ==
    IF ds = << >> THEN 0
    ELSE 10 * Magnitude(SubSeq(ds, 1, Len(ds) - 1)) + DigitValue(ds[Len(ds)])

float(tok) ==
    LET negative == tok # << >> /\ tok[1] = "-"
        ds == IF negative THEN Tail(tok) ELSE tok
    IN  IF ds # << >> /\ \A i \in DOMAIN ds : IsDigit(ds[i])
        THEN Some(IF negative THEN 0 - Magnitude(ds) ELSE Magnitude(ds))
        ELSE None

int(tok) == float(tok)

\* dict.get(key, default)
Get(d, k, default) == IF k \in DOMAIN d THEN d[k] ELSE default

(***************************************************************************)
(* TradingBot: the orchestrator operations.  Each is the set of outcomes   *)
(* the operation can have on its inputs, one per answer of the client.     *)
(***************************************************************************)

\* the handler raising an error of its own in place of the client's
Failed_replaced(c, msg) ==
    Outcome(<<c>>, Raise(Exc("Exception", msg)),
            IF IsException(c.outcome) THEN <<Error(msg)>> ELSE << >>)

\* try: ... except Exception as e: logger.error(msg); raise
\* around one client call that failed
Failed(c, msg) ==
    Outcome(<<c>>, Raise(ClientExc(c)),
            IF IsException(c.outcome) THEN <<Error(msg)>> ELSE << >>)

\* an exception raised by the operation's own code after its client call
Threw(c, e, msg) == Outcome(<<c>>, Raise(e), <<Error(msg)>>)

\* index of the first asset named USDT, 0 if there is none, -1 if an entry
\* without an 'asset' key is met first (KeyError)
RECURSIVE FirstUsdt(_, _)
FirstUsdt(balances, i) ==
    IF i > Len(balances) THEN 0
    ELSE IF "asset" \notin DOMAIN balances[i] THEN 0 - 1
    ELSE IF balances[i].asset = "USDT" THEN i
    ELSE FirstUsdt(balances, i + 1)

get_account_balance ==
    { IF c.outcome # "ok" THEN Failed(c, "Error getting account balance")
      ELSE LET account_info == c.payload[1]
               balances == Get(account_info, "assets", << >>)
               u == FirstUsdt(balances, 1)
           IN  IF u < 0
               THEN Threw(c, Exc("KeyError", "asset"), "Error getting account balance")
               ELSE Outcome(<<c>>,
                        Return([total_balance |-> Get(account_info, "totalWalletBalance", "0"),
                                available_balance |-> Get(account_info, "availableBalance", "0"),
                                usdt_balance |-> IF u = 0 THEN "0"
                                                 ELSE Get(balances[u], "walletBalance", "0")]),
                        <<Info("Account balance retrieved")>>)
      : c \in Responses("futures_account", EmptyParams) }

\* index of the first entry of the list whose symbol is `wanted`, 0 if none
RECURSIVE FirstMatch(_, _, _)
FirstMatch(symbols, wanted, i) ==
    IF i > Len(symbols) THEN 0
    ELSE IF symbols[i].symbol = wanted THEN i
    ELSE FirstMatch(symbols, wanted, i + 1)

\* get_symbol_info comparing with the symbol as given, not upper-cased
get_symbol_info_exact(symbol) ==
    { IF c.outcome # "ok" THEN Failed(c, "Error getting symbol info")
      ELSE LET m == FirstMatch(c.payload, symbol, 1)
           IN  IF m # 0
               THEN Outcome(<<c>>, Return(c.payload[m]), <<Info("Symbol found and active")>>)
               ELSE Threw(c, Exc("ValueError", "Symbol not found or not active"),
                          "Error getting symbol info")
      : c \in Responses("futures_exchange_info", EmptyParams) }

get_symbol_info(symbol) ==
    { IF c.outcome # "ok" THEN Failed(c, "Error getting symbol info")
      ELSE LET m == FirstMatch(c.payload, upper(symbol), 1)
           IN  IF m # 0
               THEN Outcome(<<c>>, Return(c.payload[m]), <<Info("Symbol found and active")>>)
               ELSE Threw(c, Exc("ValueError", "Symbol not found or not active"),
                          "Error getting symbol info")
      : c \in Responses("futures_exchange_info", EmptyParams) }

\* the except clauses of the three place-order operations
PlaceErrorLog(e, kind) ==
    IF e.type = "BinanceAPIException" THEN <<Error("Binance API error")>>
    ELSE IF e.type = "BinanceOrderException" THEN <<Error("Binance order error")>>
    ELSE IF IsException(e.type) THEN <<Error("Unexpected error placing order")>>
    ELSE << >>

\* a validation failure of a place-order operation: raised before any call
Invalid(msg, kind) ==
    LET e == Exc("ValueError", msg)
    IN  Outcome(<< >>, Raise(e), PlaceErrorLog(e, kind))

\* the order submitted whatever the lookup said: its exception is swallowed
LookupThenSubmit_unconditional(symbol, params, kind) ==
    UNION { { IF c.outcome = "ok"
              THEN Outcome(Append(s.calls, c), Return(c.payload[1]),
                           s.log \o <<Info("Placing order"),
                                      Info("Order placed successfully")>>)
              ELSE Outcome(Append(s.calls, c), Raise(ClientExc(c)),
                           s.log \o <<Info("Placing order")>>
                                 \o PlaceErrorLog(ClientExc(c), kind))
              : c \in Responses("futures_create_order", params) }
          : s \in get_symbol_info(symbol) }

\* self.get_symbol_info(symbol), then client.futures_create_order(**params)
LookupThenSubmit(symbol, params, kind) ==
    UNION { IF s.result.kind = "raise"
            THEN {Outcome(s.calls, s.result, s.log \o PlaceErrorLog(s.result.exc, kind))}
            ELSE { IF c.outcome = "ok"
                   THEN Outcome(Append(s.calls, c), Return(c.payload[1]),
                                s.log \o <<Info("Placing order"),
                                           Info("Order placed successfully")>>)
                   ELSE Outcome(Append(s.calls, c), Raise(ClientExc(c)),
                                s.log \o <<Info("Placing order")>>
                                      \o PlaceErrorLog(ClientExc(c), kind))
                   : c \in Responses("futures_create_order", params) }
          : s \in get_symbol_info(symbol) }

\* place_market_order passing a time-in-force as the other kinds do
place_market_order_with_time_in_force(symbol, side, quantity) ==
    IF upper(side) \notin {BUY, SELL}
    THEN {Invalid("Side must be 'BUY' or 'SELL'", "market")}
    ELSE IF quantity <= 0
    THEN {Invalid("Quantity must be positive", "market")}
    ELSE LookupThenSubmit(symbol,
            [symbol |-> upper(symbol), side |-> upper(side), type |-> "MARKET",
             quantity |-> quantity, timeInForce |-> "GTC"],
            "market")

\* place_market_order comparing the side as given, not upper-cased
place_market_order_exact_side(symbol, side, quantity) ==
    IF side \notin {BUY, SELL}
    THEN {Invalid("Side must be 'BUY' or 'SELL'", "market")}
    ELSE IF quantity <= 0
    THEN {Invalid("Quantity must be positive", "market")}
    ELSE LookupThenSubmit(symbol,
            [symbol |-> upper(symbol), side |-> upper(side), type |-> "MARKET",
             quantity |-> quantity],
            "market")

place_market_order(symbol, side, quantity) ==
    IF upper(side) \notin {BUY, SELL}
    THEN {Invalid("Side must be 'BUY' or 'SELL'", "market")}
    ELSE IF quantity <= 0
    THEN {Invalid("Quantity must be positive", "market")}
    ELSE LookupThenSubmit(symbol,
            [symbol |-> upper(symbol), side |-> upper(side), type |-> "MARKET",
             quantity |-> quantity],
            "market")

\* place_limit_order without its check of the quantity
place_limit_order_unchecked_quantity(symbol, side, quantity, price, time_in_force) ==
    IF upper(side) \notin {BUY, SELL}
    THEN {Invalid("Side must be 'BUY' or 'SELL'", "limit")}
    ELSE IF price <= 0
    THEN {Invalid("Price must be positive", "limit")}
    ELSE LookupThenSubmit(symbol,
            [symbol |-> upper(symbol), side |-> upper(side), type |-> "LIMIT",
             quantity |-> quantity, price |-> price, timeInForce |-> time_in_force],
            "limit")

place_limit_order(symbol, side, quantity, price, time_in_force) ==
    IF upper(side) \notin {BUY, SELL}
    THEN {Invalid("Side must be 'BUY' or 'SELL'", "limit")}
    ELSE IF quantity <= 0
    THEN {Invalid("Quantity must be positive", "limit")}
    ELSE IF price <= 0
    THEN {Invalid("Price must be positive", "limit")}
    ELSE LookupThenSubmit(symbol,
            [symbol |-> upper(symbol), side |-> upper(side), type |-> "LIMIT",
             quantity |-> quantity, price |-> price, timeInForce |-> time_in_force],
            "limit")

\* place_stop_limit_order rejecting only when both prices are non-positive
place_stop_limit_order_both_prices(symbol, side, quantity, price, stop_price, time_in_force) ==
    IF upper(side) \notin {BUY, SELL}
    THEN {Invalid("Side must be 'BUY' or 'SELL'", "stop-limit")}
    ELSE IF quantity <= 0
    THEN {Invalid("Quantity must be positive", "stop-limit")}
    ELSE IF price <= 0 /\ stop_price <= 0
    THEN {Invalid("Price and stop price must be positive", "stop-limit")}
    ELSE LookupThenSubmit(symbol,
            [symbol |-> upper(symbol), side |-> upper(side), type |-> "STOP",
             quantity |-> quantity, price |-> price, stopPrice |-> stop_price,
             timeInForce |-> time_in_force],
            "stop-limit")

place_stop_limit_order(symbol, side, quantity, price, stop_price, time_in_force) ==
    IF upper(side) \notin {BUY, SELL}
    THEN {Invalid("Side must be 'BUY' or 'SELL'", "stop-limit")}
    ELSE IF quantity <= 0
    THEN {Invalid("Quantity must be positive", "stop-limit")}
    ELSE IF price <= 0 \/ stop_price <= 0
    THEN {Invalid("Price and stop price must be positive", "stop-limit")}
    ELSE LookupThenSubmit(symbol,
            [symbol |-> upper(symbol), side |-> upper(side), type |-> "STOP",
             quantity |-> quantity, price |-> price, stopPrice |-> stop_price,
             timeInForce |-> time_in_force],
            "stop-limit")

\* the default of the time_in_force parameter
DefaultTimeInForce == "GTC"

\* get_order_status validating the symbol first, as the place operations do
get_order_status_with_lookup(symbol, order_id) ==
    UNION { IF s.result.kind = "raise" THEN {s}
            ELSE { IF c.outcome # "ok"
                   THEN Outcome(Append(s.calls, c), Raise(ClientExc(c)),
                                <<Error("Error getting order status")>>)
                   ELSE Outcome(Append(s.calls, c), Return(c.payload[1]),
                                <<Info("Order status retrieved")>>)
                   : c \in Responses("futures_get_order",
                                     [symbol |-> upper(symbol), orderId |-> order_id]) }
          : s \in get_symbol_info(symbol) }

get_order_status(symbol, order_id) ==
    { IF c.outcome # "ok" THEN Failed(c, "Error getting order status")
      ELSE Outcome(<<c>>, Return(c.payload[1]), <<Info("Order status retrieved")>>)
      : c \in Responses("futures_get_order",
                        [symbol |-> upper(symbol), orderId |-> order_id]) }

cancel_order(symbol, order_id) ==
    { IF c.outcome # "ok" THEN Failed(c, "Error cancelling order")
      ELSE Outcome(<<c>>, Return(c.payload[1]), <<Info("Order cancelled")>>)
      : c \in Responses("futures_cancel_order",
                        [symbol |-> upper(symbol), orderId |-> order_id]) }

\* symbol is None or Some(a string); `if symbol:` is false for None and for ""
get_open_orders(symbol) ==
    { IF c.outcome # "ok" THEN Failed(c, "Error getting open orders")
      ELSE Outcome(<<c>>, Return(c.payload), <<Info("Retrieved open orders")>>)
      : c \in Responses("futures_get_open_orders",
                        IF symbol # None /\ symbol[1] # << >>
                        THEN [symbol |-> upper(symbol[1])]
                        ELSE EmptyParams) }

get_current_price(symbol) ==
    { IF c.outcome # "ok" THEN Failed(c, "Error getting current price")
      ELSE LET ticker == c.payload[1]
           IN  IF "price" \notin DOMAIN ticker
               THEN Threw(c, Exc("KeyError", "price"), "Error getting current price")
               ELSE IF float(ticker.price) = None
               THEN Threw(c, Exc("ValueError", "could not convert string to float"),
                          "Error getting current price")
               ELSE Outcome(<<c>>, Return(float(ticker.price)[1]),
                            <<Info("Current price")>>)
      : c \in Responses("futures_symbol_ticker", [symbol |-> upper(symbol)]) }

(***************************************************************************)
(* Inputs.                                                                 *)
(***************************************************************************)
Symbols == { <<"a","b">>, <<"A","b">>, <<"b">> }
Sides == { BUY, <<"B","u","Y">>, SELL, <<"s","e","l","l">>,
           <<"H","O","L","D">>, <<"b","u","y","s">>, << >> }
Quantities == (0 - MaxQty)..MaxQty
Prices == (0 - MaxPrice)..MaxPrice
OrderIds == {1}
TimeInForces == {None, Some("IOC")}

\* a parameter with a default: the caller's value, or the default if it gave none
OrDefault(given, default) == IF given = None THEN default ELSE given[1]

NoArgs == [given |-> {}]

NoOp == [name |-> "none", symbol |-> << >>, side |-> << >>, quantity |-> 0,
         price |-> 0, stop_price |-> 0, time_in_force |-> None, order_id |-> 0,
         line |-> << >>, invoked |-> << >>]

(***************************************************************************)
(* The class used directly: a caller that holds a constructed TradingBot   *)
(* invokes one operation, gets its result or its exception, and goes on.   *)
(***************************************************************************)
Invoke(o, outcomes) ==
    /\ \E r \in outcomes :
          /\ calls' = r.calls
          /\ result' = r.result
          /\ log' = r.log
    /\ op' = [o EXCEPT !.invoked = <<o.name>>]
    /\ pc' = "returned"
    /\ UNCHANGED <<args, output>>

CallGetAccountBalance ==
    /\ pc = "idle"
    /\ Invoke([NoOp EXCEPT !.name = "get_account_balance"], get_account_balance)

CallGetSymbolInfo ==
    /\ pc = "idle"
    /\ \E symbol \in Symbols :
        Invoke([NoOp EXCEPT !.name = "get_symbol_info", !.symbol = symbol],
               get_symbol_info(symbol))

CallPlaceMarketOrder ==
    /\ pc = "idle"
    /\ \E symbol \in Symbols, side \in Sides, quantity \in Quantities :
        Invoke([NoOp EXCEPT !.name = "place_market_order", !.symbol = symbol,
                            !.side = side, !.quantity = quantity],
               place_market_order(symbol, side, quantity))

CallPlaceLimitOrder ==
    /\ pc = "idle"
    /\ \E symbol \in Symbols, side \in Sides, quantity \in Quantities,
       price \in Prices, tif \in TimeInForces :
        Invoke([NoOp EXCEPT !.name = "place_limit_order", !.symbol = symbol,
                            !.side = side, !.quantity = quantity, !.price = price,
                            !.time_in_force = tif],
               place_limit_order(symbol, side, quantity, price,
                                 OrDefault(tif, DefaultTimeInForce)))

CallPlaceStopLimitOrder ==
    /\ pc = "idle"
    /\ \E symbol \in Symbols, side \in Sides, quantity \in Quantities,
       price \in Prices, stop_price \in Prices, tif \in TimeInForces :
        Invoke([NoOp EXCEPT !.name = "place_stop_limit_order", !.symbol = symbol,
                            !.side = side, !.quantity = quantity, !.price = price,
                            !.stop_price = stop_price, !.time_in_force = tif],
               place_stop_limit_order(symbol, side, quantity, price, stop_price,
                                      OrDefault(tif, DefaultTimeInForce)))

CallGetOrderStatus ==
    /\ pc = "idle"
    /\ \E symbol \in Symbols, order_id \in OrderIds :
        Invoke([NoOp EXCEPT !.name = "get_order_status", !.symbol = symbol,
                            !.order_id = order_id],
               get_order_status(symbol, order_id))

CallCancelOrder ==
    /\ pc = "idle"
    /\ \E symbol \in Symbols, order_id \in OrderIds :
        Invoke([NoOp EXCEPT !.name = "cancel_order", !.symbol = symbol,
                            !.order_id = order_id],
               cancel_order(symbol, order_id))

CallGetOpenOrders ==
    /\ pc = "idle"
    /\ \E symbol \in {None, Some(<< >>)} \cup {Some(s) : s \in Symbols} :
        Invoke([NoOp EXCEPT !.name = "get_open_orders", !.symbol = symbol],
               get_open_orders(symbol))

CallGetCurrentPrice ==
    /\ pc = "idle"
    /\ \E symbol \in Symbols :
        Invoke([NoOp EXCEPT !.name = "get_current_price", !.symbol = symbol],
               get_current_price(symbol))

\* the caller has taken the result; the bot is ready for the next operation
Resume ==
    /\ pc = "returned"
    /\ pc' = "idle"
    /\ op' = NoOp
    /\ calls' = << >>
    /\ result' = NoResult
    /\ log' = << >>
    /\ UNCHANGED <<args, output>>

InitApi ==
    /\ pc = "idle"
    /\ args = NoArgs
    /\ op = NoOp
    /\ calls = << >>
    /\ result = NoResult
    /\ log = << >>
    /\ output = << >>

(***************************************************************************)
(* interactive_mode: one pass of the read-eval-print loop.                 *)
(* A line is the sequence of its whitespace-separated tokens; the loop     *)
(* lower-cases the line before it looks at it.                             *)
(***************************************************************************)
CmdQuit == <<"q","u","i","t">>
CmdBalance == <<"b","a","l","a","n","c","e">>
CmdPrice == <<"p","r","i","c","e">>
CmdMarket == <<"m","a","r","k","e","t">>
CmdLimit == <<"l","i","m","i","t">>
CmdStop == <<"s","t","o","p">>
CmdOrders == <<"o","r","d","e","r","s">>
CmdStatus == <<"s","t","a","t","u","s">>
CmdCancel == <<"c","a","n","c","e","l">>

StartsWith(s, prefix) ==
    Len(s) >= Len(prefix) /\ SubSeq(s, 1, Len(prefix)) = prefix

\* command.startswith(word + ' '): the stripped line begins with the word
\* followed by a space, so the word is its first token and another follows
StartsWithWord(parts, word) == Len(parts) >= 2 /\ parts[1] = word

\* what one pass of the loop (or main) did
Handled(c, r, l, out, inv, next) ==
    [calls |-> c, result |-> r, log |-> l, output |-> out, invoked |-> inv, next |-> next]

\* a print statement that formats fields of a dict: KeyError if one is missing
Line(text, d, keys) == [text |-> text, ok |-> keys \subseteq DOMAIN d]

RECURSIVE Printed(_)
Printed(lines) ==
    IF lines = << >> \/ ~ lines[1].ok THEN << >>
    ELSE <<lines[1].text>> \o Printed(Tail(lines))

\* except clauses that end the loop on any exception
Caught_ends_loop(c, e, l, printed, inv) ==
    IF e.type = "KeyboardInterrupt"
    THEN [calls |-> c, result |-> Raise(e), log |-> l,
          output |-> Append(printed, "Goodbye!"), invoked |-> inv, next |-> "break"]
    ELSE [calls |-> c, result |-> Raise(e), log |-> l,
          output |-> Append(printed, "Error"), invoked |-> inv, next |-> "break"]

\* the except clauses of the loop: KeyboardInterrupt ends it, any other
\* exception is printed and the loop goes on
Caught(c, e, l, printed, inv) ==
    IF e.type = "KeyboardInterrupt"
    THEN Handled(c, Raise(e), l, Append(printed, "Goodbye!"), inv, "break")
    ELSE Handled(c, Raise(e), l, Append(printed, "Error"), inv, "continue")

\* an orchestrator operation was called and its result is printed by `lines`
CallAndPrint(o, name, lines) ==
    IF o.result.kind = "raise"
    THEN Caught(o.calls, o.result.exc, o.log, << >>, <<name>>)
    ELSE IF Len(Printed(lines)) = Len(lines)
    THEN Handled(o.calls, NoResult, o.log, Printed(lines), <<name>>, "continue")
    ELSE Caught(o.calls, Exc("KeyError", "field"), o.log, Printed(lines), <<name>>)

Usage(text) == Handled(<< >>, NoResult, << >>, <<text>>, << >>, "continue")

ConversionError ==
    Caught(<< >>, Exc("ValueError", "could not convert string"), << >>, << >>, << >>)

OrderLines(order) ==
    << Line("Order ID", order, {"orderId"}), Line("Symbol", order, {"symbol"}),
       Line("Side", order, {"side"}), Line("Type", order, {"type"}),
       Line("Quantity", order, {"origQty"}), Line("Price", order, {"price"}),
       Line("Status", order, {"status"}), Line("----", order, {}) >>

RECURSIVE OpenOrdersLines(_)
OpenOrdersLines(orders) ==
    IF orders = << >> THEN << >>
    ELSE OrderLines(orders[1]) \o OpenOrdersLines(Tail(orders))

interactive_command(line) ==
    LET parts == [i \in DOMAIN line |-> lower(line[i])]
        n == Len(parts)
    IN
    IF parts = <<CmdQuit>>
    THEN {Handled(<< >>, NoResult, << >>, <<"Goodbye!">>, << >>, "break")}
    ELSE IF parts = <<CmdBalance>>
    THEN { CallAndPrint(o, "get_account_balance",
               IF o.result.kind = "raise" THEN << >>
               ELSE LET balance == o.result.value[1]
                    IN  << Line("Account Balance:", balance, {}),
                           Line("Total", balance, {"total_balance"}),
                           Line("Available", balance, {"available_balance"}),
                           Line("USDT Balance", balance, {"usdt_balance"}) >>)
           : o \in get_account_balance }
    ELSE IF StartsWithWord(parts, CmdPrice)
    THEN IF n # 2 THEN {Usage("Usage: price <symbol>")}
         ELSE { CallAndPrint(o, "get_current_price",
                             <<[text |-> "Current price", ok |-> TRUE]>>)
                : o \in get_current_price(parts[2]) }
    ELSE IF StartsWithWord(parts, CmdMarket)
    THEN IF n # 4 THEN {Usage("Usage: market <symbol> <side> <quantity>")}
         ELSE IF float(parts[4]) = None THEN {ConversionError}
         ELSE { CallAndPrint(o, "place_market_order",
                    IF o.result.kind = "raise" THEN << >>
                    ELSE LET order == o.result.value[1]
                         IN  << Line("Market order placed", order, {"orderId"}),
                                Line("Symbol", order, {"symbol"}),
                                Line("Side", order, {"side"}),
                                Line("Quantity", order, {"origQty"}),
                                Line("Status", order, {"status"}) >>)
                : o \in place_market_order(parts[2], parts[3], float(parts[4])[1]) }
    ELSE IF StartsWithWord(parts, CmdLimit)
    THEN IF n # 5 THEN {Usage("Usage: limit <symbol> <side> <quantity> <price>")}
         ELSE IF float(parts[4]) = None \/ float(parts[5]) = None THEN {ConversionError}
         ELSE { CallAndPrint(o, "place_limit_order",
                    IF o.result.kind = "raise" THEN << >>
                    ELSE LET order == o.result.value[1]
                         IN  << Line("Limit order placed", order, {"orderId"}),
                                Line("Symbol", order, {"symbol"}),
                                Line("Side", order, {"side"}),
                                Line("Quantity", order, {"origQty"}),
                                Line("Price", order, {"price"}),
                                Line("Status", order, {"status"}) >>)
                : o \in place_limit_order(parts[2], parts[3], float(parts[4])[1],
                                          float(parts[5])[1], DefaultTimeInForce) }
    ELSE IF StartsWithWord(parts, CmdStop)
    THEN IF n # 6
         THEN {Usage("Usage: stop <symbol> <side> <quantity> <price> <stop_price>")}
         ELSE IF float(parts[4]) = None \/ float(parts[5]) = None
                 \/ float(parts[6]) = None
         THEN {ConversionError}
         ELSE { CallAndPrint(o, "place_stop_limit_order",
                    IF o.result.kind = "raise" THEN << >>
                    ELSE LET order == o.result.value[1]
                         IN  << Line("Stop-limit order placed", order, {"orderId"}),
                                Line("Symbol", order, {"symbol"}),
                                Line("Side", order, {"side"}),
                                Line("Quantity", order, {"origQty"}),
                                Line("Price", order, {"price"}),
                                Line("Stop Price", order, {"stopPrice"}),
                                Line("Status", order, {"status"}) >>)
                : o \in place_stop_limit_order(parts[2], parts[3], float(parts[4])[1],
                                               float(parts[5])[1], float(parts[6])[1],
                                               DefaultTimeInForce) }
    ELSE IF n >= 1 /\ StartsWith(parts[1], CmdOrders)
    THEN { CallAndPrint(o, "get_open_orders",
               IF o.result.kind = "raise" THEN << >>
               ELSE LET orders == o.result.value[1]
                    IN  IF orders = << >>
                        THEN <<[text |-> "No open orders", ok |-> TRUE]>>
                        ELSE <<[text |-> "Open orders", ok |-> TRUE]>>
                             \o OpenOrdersLines(orders))
           : o \in get_open_orders(IF n > 1 THEN Some(parts[2]) ELSE None) }
    ELSE IF StartsWithWord(parts, CmdStatus)
    THEN IF n # 3 THEN {Usage("Usage: status <symbol> <order_id>")}
         ELSE IF int(parts[3]) = None THEN {ConversionError}
         ELSE { CallAndPrint(o, "get_order_status",
                    IF o.result.kind = "raise" THEN << >>
                    ELSE LET order == o.result.value[1]
                         IN  << Line("Order Status:", order, {}),
                                Line("Order ID", order, {"orderId"}),
                                Line("Symbol", order, {"symbol"}),
                                Line("Side", order, {"side"}),
                                Line("Type", order, {"type"}),
                                Line("Status", order, {"status"}),
                                Line("Quantity", order, {"origQty"}),
                                Line("Executed", order, {"executedQty"}),
                                Line("Price", order, {"price"}) >>)
                : o \in get_order_status(parts[2], int(parts[3])[1]) }
    ELSE IF StartsWithWord(parts, CmdCancel)
    THEN IF n # 3 THEN {Usage("Usage: cancel <symbol> <order_id>")}
         ELSE IF int(parts[3]) = None THEN {ConversionError}
         ELSE { CallAndPrint(o, "cancel_order",
                    IF o.result.kind = "raise" THEN << >>
                    ELSE << Line("Order cancelled", o.result.value[1], {"orderId"}) >>)
                : o \in cancel_order(parts[2], int(parts[3])[1]) }
    ELSE {Handled(<< >>, NoResult, << >>, <<"Unknown command. Type 'quit' to exit.">>,
                  << >>, "continue")}

\* the lines typed at the prompt: a first token, then a symbol, then a side
\* or an order id, then numbers, then anything
Tokens(i) ==
    CASE i = 1 -> { CmdQuit, CmdBalance, CmdPrice, CmdMarket, CmdLimit, CmdStop,
                    CmdOrders, CmdStatus, CmdCancel,
                    <<"o","r","d","e","r","s","x">>, <<"h","e","l","p">>,
                    <<"M","A","R","K","E","T">> }
      [] i = 2 -> { <<"a","b">>, <<"A","B">>, <<"b">> }
      [] i = 3 -> { <<"b","u","y">>, SELL, <<"h","o","l","d">>, <<"1">> }
      [] i \in {4, 5, 6} -> { <<"1">>, <<"0">>, <<"-","1">>, <<"x">> }
      [] OTHER -> { <<"x">> }

RECURSIVE LinesOfLen(_)
LinesOfLen(n) ==
    IF n = 0 THEN {<< >>}
    ELSE {Append(l, t) : l \in LinesOfLen(n - 1), t \in Tokens(n)}

Lines == UNION {LinesOfLen(n) : n \in 0..MaxTokens}

Finish(o, name, next) ==
    /\ \E h \in o :
          /\ calls' = h.calls
          /\ result' = h.result
          /\ log' = h.log
          /\ output' = h.output
          /\ op' = [name EXCEPT !.invoked = h.invoked]
          /\ pc' = next[h.next]

\* interactive_mode is entered: the list of commands is printed
EnterShell ==
    /\ pc = "interactive"
    /\ pc' = "prompt"
    /\ args' = NoArgs
    /\ op' = NoOp
    /\ calls' = << >>
    /\ result' = NoResult
    /\ log' = << >>
    /\ output' = <<"Available commands">>

\* input() returns a line and the loop body handles it
Command ==
    /\ pc = "prompt"
    /\ \E line \in Lines :
          Finish(interactive_command(line),
                 [NoOp EXCEPT !.name = "command", !.line = line],
                 [continue |-> "handled", break |-> "exited"])
    /\ UNCHANGED args

\* Ctrl-C at the prompt: input() raises KeyboardInterrupt
InterruptAtPrompt ==
    /\ pc = "prompt"
    /\ Finish({Caught(<< >>, Exc("KeyboardInterrupt", "input"), << >>, << >>, << >>)},
              [NoOp EXCEPT !.name = "input"],
              [continue |-> "handled", break |-> "exited"])
    /\ UNCHANGED args

\* end of input at the prompt: input() raises EOFError
EndOfInput ==
    /\ pc = "prompt"
    /\ Finish({Caught(<< >>, Exc("EOFError", "input"), << >>, << >>, << >>)},
              [NoOp EXCEPT !.name = "input"],
              [continue |-> "handled", break |-> "exited"])
    /\ UNCHANGED args

\* the next pass of `while True`
Continue ==
    /\ pc = "handled"
    /\ pc' = "prompt"
    /\ op' = NoOp
    /\ calls' = << >>
    /\ result' = NoResult
    /\ log' = << >>
    /\ output' = << >>
    /\ UNCHANGED args

(***************************************************************************)
(* main(): credentials, construction of the bot and the first balance;     *)
(* then the interactive shell or a single order.                           *)
(***************************************************************************)
TruthyString(given) == given # None /\ given[1] # << >>
TruthyNumber(given) == given # None /\ given[1] # 0

\* None when ValueError("API credentials are required") is raised
get_user_credentials(env_key, env_secret, typed_key, typed_secret) ==
    LET api_key == IF TruthyString(env_key) THEN env_key[1] ELSE typed_key
        api_secret == IF TruthyString(env_secret) THEN env_secret[1] ELSE typed_secret
    IN  IF api_key = << >> \/ api_secret = << >> THEN None
        ELSE Some(<<api_key, api_secret>>)

Secrets == {None, Some(<<"k">>)}

\* the credentials main() ends up with, over every command line, environment
\* and typed answer
Credentials ==
    { IF TruthyString(cli_key) /\ TruthyString(cli_secret)
      THEN Some(<<cli_key[1], cli_secret[1]>>)
      ELSE get_user_credentials(env_key, env_secret, typed_key, typed_secret)
      : cli_key \in Secrets, cli_secret \in Secrets,
        env_key \in Secrets, env_secret \in Secrets,
        typed_key \in {<< >>, <<"k">>}, typed_secret \in {<< >>, <<"k">>} }

validate_connection ==
    UNION { IF s.outcome # "ok"
            THEN {Failed(s, "Failed to connect to Binance API")}
            ELSE { IF a.outcome # "ok"
                   THEN Outcome(<<s, a>>, Raise(ClientExc(a)),
                                <<Info("System status")>>
                                \o (IF IsException(a.outcome)
                                    THEN <<Error("Failed to connect to Binance API")>>
                                    ELSE << >>))
                   ELSE Outcome(<<s, a>>, Return(TRUE),
                                <<Info("System status"),
                                  Info("Successfully connected to Binance Futures API"),
                                  Info("Account balance")>>)
                   : a \in Responses("futures_account", EmptyParams) }
          : s \in Responses("get_system_status", EmptyParams) }

\* TradingBot.__init__: setup_logging, then validate_connection
TradingBot ==
    { Outcome(v.calls, v.result,
              <<Info("Trading bot initialized"), Info("Testnet mode")>> \o v.log)
      : v \in validate_connection }

\* the except clauses of main()
MainCaught(c, e, l, printed, inv) ==
    IF e.type = "KeyboardInterrupt"
    THEN Handled(c, Raise(e), l, Append(printed, "Application interrupted by user"),
                 inv, "exit")
    ELSE Handled(c, Raise(e), Append(l, Error("Application error")),
                 Append(printed, "Error"), inv, "exit")

\* main() up to the construction of the bot
main_connect ==
    UNION { IF cred = None
            THEN {MainCaught(<< >>, Exc("ValueError", "API credentials are required"),
                             << >>, <<"banner">>, << >>)}
            ELSE { IF bot.result.kind = "raise"
                   THEN MainCaught(bot.calls, bot.result.exc, bot.log,
                                   <<"banner", "Initializing trading bot...">>, << >>)
                   ELSE Handled(bot.calls, NoResult, bot.log,
                                <<"banner", "Initializing trading bot...",
                                  "Trading bot initialized successfully!">>,
                                << >>, "go")
                   : bot \in TradingBot }
          : cred \in Credentials }

\* main(): the balance fetched and printed once the bot is constructed
main_balance ==
    { IF b.result.kind = "raise"
      THEN MainCaught(b.calls, b.result.exc, b.log, << >>, <<"get_account_balance">>)
      ELSE Handled(b.calls, b.result, b.log, <<"Account Balance">>,
                   <<"get_account_balance">>, "go")
      : b \in get_account_balance }

ArgSets ==
    [ interactive : BOOLEAN,
      symbol : {None, Some(<< >>), Some(<<"a","b">>), Some(<<"B">>)},
      side : {None, Some(BUY), Some(SELL)},
      quantity : {None} \cup {Some(q) : q \in Quantities},
      price : {None} \cup {Some(x) : x \in Prices},
      type : {"market", "limit", "stop"},
      stop_price : {None} \cup {Some(x) : x \in Prices} ]

\* the test written with `is not None` in place of truthiness
AllGiven_not_none(a) ==
    a.symbol # None /\ a.side # None /\ a.quantity # None

\* all([args.symbol, args.side, args.quantity])
AllGiven(a) ==
    TruthyString(a.symbol) /\ TruthyString(a.side) /\ TruthyNumber(a.quantity)

\* a single order was placed (or failed): print its id
OneShot(o, name, text) ==
    IF o.result.kind = "raise"
    THEN MainCaught(o.calls, o.result.exc, o.log, <<"Executing single command...">>,
                    <<name>>)
    ELSE IF "orderId" \notin DOMAIN o.result.value[1]
    THEN MainCaught(o.calls, Exc("KeyError", "orderId"), o.log,
                    <<"Executing single command...">>, <<name>>)
    ELSE Handled(o.calls, NoResult, o.log, <<"Executing single command...", text>>,
                 <<name>>, "exit")

\* main() from `if args.interactive or not all(...)` on
main_dispatch(a) ==
    IF a.interactive \/ ~ AllGiven(a)
    THEN {Handled(<< >>, NoResult, << >>, << >>, << >>, "shell")}
    ELSE IF a.type = "market"
    THEN { OneShot(o, "place_market_order", "Market order placed")
           : o \in place_market_order(a.symbol[1], a.side[1], a.quantity[1]) }
    ELSE IF a.type = "limit"
    THEN IF ~ TruthyNumber(a.price)
         THEN {Handled(<< >>, NoResult, << >>,
                       <<"Executing single command...",
                         "Price is required for limit orders">>, << >>, "exit")}
         ELSE { OneShot(o, "place_limit_order", "Limit order placed")
                : o \in place_limit_order(a.symbol[1], a.side[1], a.quantity[1],
                                          a.price[1], DefaultTimeInForce) }
    ELSE IF ~ TruthyNumber(a.price) \/ ~ TruthyNumber(a.stop_price)
         THEN {Handled(<< >>, NoResult, << >>,
                       <<"Executing single command...",
                         "Price and stop-price are required for stop-limit orders">>,
                       << >>, "exit")}
         ELSE { OneShot(o, "place_stop_limit_order", "Stop-limit order placed")
                : o \in place_stop_limit_order(a.symbol[1], a.side[1], a.quantity[1],
                                               a.price[1], a.stop_price[1],
                                               DefaultTimeInForce) }

Connect ==
    /\ pc = "start"
    /\ Finish(main_connect, [NoOp EXCEPT !.name = "main_connect"],
              [go |-> "constructed", exit |-> "exited"])
    /\ UNCHANGED args

FirstBalance ==
    /\ pc = "constructed"
    /\ Finish(main_balance, [NoOp EXCEPT !.name = "main_balance"],
              [go |-> "connected", exit |-> "exited"])
    /\ UNCHANGED args

\* main() goes on from the printed balance to its branch on the command line
Proceed ==
    /\ pc = "connected"
    /\ pc' = "dispatching"
    /\ op' = NoOp
    /\ calls' = << >>
    /\ result' = NoResult
    /\ log' = << >>
    /\ output' = << >>
    /\ UNCHANGED args

\* the order flags of the command line are read here for the first time (the
\* credential flags are read by Connect), so this is where they are drawn
Dispatch ==
    /\ pc = "dispatching"
    /\ \E a \in ArgSets :
          /\ args' = a
          /\ Finish(main_dispatch(a), [NoOp EXCEPT !.name = "main_dispatch"],
                    [shell |-> "interactive", exit |-> "exited"])

InitMain ==
    /\ pc = "start"
    /\ args = NoArgs
    /\ op = NoOp
    /\ calls = << >>
    /\ result = NoResult
    /\ log = << >>
    /\ output = << >>

Init == InitApi \/ InitMain

Next ==
    \/ CallGetAccountBalance
    \/ CallGetSymbolInfo
    \/ CallPlaceMarketOrder
    \/ CallPlaceLimitOrder
    \/ CallPlaceStopLimitOrder
    \/ CallGetOrderStatus
    \/ CallCancelOrder
    \/ CallGetOpenOrders
    \/ CallGetCurrentPrice
    \/ Resume
    \/ Connect
    \/ FirstBalance
    \/ Proceed
    \/ Dispatch
    \/ EnterShell
    \/ Command
    \/ InterruptAtPrompt
    \/ EndOfInput
    \/ Continue

Spec == Init /\ [][Next]_vars

(***************************************************************************)
(* Properties.                                                             *)
(***************************************************************************)
PlaceOps == {"place_market_order", "place_limit_order", "place_stop_limit_order"}

\* a place-order operation called directly has returned or raised
Placed == pc = "returned" /\ op.name \in PlaceOps

ValidationFailed ==
    result.kind = "raise" /\ result.exc.type = "ValueError" /\ calls = << >>

\* the spellings of word in every letter case
CaseVariants(word) ==
    {s \in Sides : Len(s) = Len(word)
                   /\ \A i \in DOMAIN s : s[i] \in {word[i], LowerChar(word[i])}}

SideError == Exc("ValueError", "Side must be 'BUY' or 'SELL'")

\* C1: a place-order operation of any kind with quantity <= 0 fails with a
\* validation error and makes no call to the exchange client, neither the
\* symbol lookup nor the order submission.
C1_NonPositiveQuantityRejected ==
    (Placed /\ op.quantity <= 0) => ValidationFailed

C1_Witness ==
    /\ Placed
    /\ op.name = "place_stop_limit_order"
    /\ op.quantity <= 0
    /\ op.side = SELL /\ op.price > 0 /\ op.stop_price > 0
    /\ result = Raise(Exc("ValueError", "Quantity must be positive"))
    /\ calls = << >>

\* C2: a place-order operation of any kind whose side, upper-cased, is neither
\* BUY nor SELL fails with a validation error before any call to the exchange
\* client; a side that spells BUY or SELL in any letter case is not rejected
\* by the check of the side.
C2_SideCheckedCaseInsensitively ==
    Placed =>
        /\ upper(op.side) \notin {BUY, SELL} =>
              ValidationFailed /\ result.exc = SideError
        /\ op.side \in CaseVariants(BUY) \cup CaseVariants(SELL) =>
              ~ (result.kind = "raise" /\ result.exc = SideError)

C2_Witness ==
    /\ Placed
    /\ op.name = "place_market_order"
    /\ op.side = <<"B","u","Y">>
    /\ op.quantity > 0
    /\ result.kind = "return"
    /\ Len(calls) = 2 /\ calls[2].params.side = BUY

\* C3: with a valid side and a positive quantity, a limit order with
\* price <= 0, and a stop-limit order with price <= 0 or stop_price <= 0,
\* fails validation before any call to the exchange client.
C3_NonPositivePriceRejected ==
    ( /\ Placed
      /\ upper(op.side) \in {BUY, SELL}
      /\ op.quantity > 0
      /\ \/ op.name = "place_limit_order" /\ op.price <= 0
         \/ op.name = "place_stop_limit_order" /\ (op.price <= 0 \/ op.stop_price <= 0) )
    => ValidationFailed

C3_Witness ==
    /\ Placed
    /\ op.name = "place_stop_limit_order"
    /\ op.side = BUY /\ op.quantity > 0
    /\ op.price > 0 /\ op.stop_price <= 0
    /\ result = Raise(Exc("ValueError", "Price and stop price must be positive"))
    /\ calls = << >>

\* the order submissions among the calls of the operation
Submissions == {i \in DOMAIN calls : calls[i].method = "futures_create_order"}

\* main() has taken its branch on the command line
Dispatched == op.name = "main_dispatch"

PlaceOpOfType(type) ==
    CASE type = "market" -> "place_market_order"
      [] type = "limit" -> "place_limit_order"
      [] type = "stop" -> "place_stop_limit_order"


\* the flags select the one-shot path: no --interactive, a non-empty symbol,
\* a side and a non-zero quantity
OneShotFlags ==
    /\ ~ args.interactive
    /\ args.symbol # None /\ Len(args.symbol[1]) > 0
    /\ args.side # None
    /\ args.quantity # None /\ args.quantity[1] # 0

\* C4 as stated: with symbol, side and quantity all supplied and no
\* --interactive, exactly one order submission is attempted and the program
\* exits, whatever the order type and the price flags; in every other case the
\* interactive shell is entered.
C4_OneShotAlwaysSubmitsOnce ==
    Dispatched =>
        IF OneShotFlags
        THEN pc = "exited" /\ Cardinality(Submissions) = 1
        ELSE pc = "interactive"

\* the prices that the order type needs are supplied and non-zero
PriceFlags ==
    \/ args.type = "market"
    \/ args.type = "limit" /\ args.price # None /\ args.price[1] # 0
    \/ /\ args.type = "stop"
       /\ args.price # None /\ args.price[1] # 0
       /\ args.stop_price # None /\ args.stop_price[1] # 0

\* the values of the flags pass the validation of the place-order operation
ValidFlags ==
    /\ args.quantity[1] > 0
    /\ args.type \in {"limit", "stop"} => args.price[1] > 0
    /\ args.type = "stop" => args.stop_price[1] > 0

\* the first call is a symbol lookup that the exchange answered with a list
\* holding the symbol
LookupSucceeded(symbol) ==
    /\ Len(calls) >= 1
    /\ calls[1].method = "futures_exchange_info"
    /\ calls[1].outcome = "ok"
    /\ \E i \in DOMAIN calls[1].payload : calls[1].payload[i].symbol = upper(symbol)

\* C4 (amended): once connected, main() enters the interactive shell exactly
\* when --interactive is given or symbol, side or quantity is missing, empty
\* or zero.  Otherwise it exits without entering the shell, after invoking
\* exactly one place-order operation, of the kind --type names, when the
\* prices that kind needs are supplied and non-zero, and none (and no call)
\* when they are not; at most one order submission is attempted, and exactly
\* one precisely when the operation's validation and symbol lookup succeed.
C4_OneShotPlacesAtMostOnce ==
    Dispatched =>
        IF OneShotFlags
        THEN /\ pc = "exited"
             /\ PriceFlags => op.invoked = <<PlaceOpOfType(args.type)>>
             /\ ~ PriceFlags => op.invoked = << >> /\ calls = << >>
             /\ Cardinality(Submissions) <= 1
             /\ Cardinality(Submissions) = 1 <=>
                    (PriceFlags /\ ValidFlags /\ LookupSucceeded(args.symbol[1]))
        ELSE pc = "interactive" /\ op.invoked = << >> /\ calls = << >>

C4_Witness ==
    /\ Dispatched
    /\ OneShotFlags
    /\ args.type = "limit" /\ args.price = Some(1)
    /\ pc = "exited"
    /\ op.invoked = <<"place_limit_order">>
    /\ Submissions = {2}
    /\ result = NoResult

\* the interactive loop has handled a typed line
Typed == op.name = "command" /\ pc \in {"handled", "exited"}

\* the command words and the number of arguments each takes
CommandWords ==
    {CmdQuit, CmdBalance, CmdPrice, CmdMarket, CmdLimit, CmdStop, CmdOrders,
     CmdStatus, CmdCancel}

Arities(word) ==
    CASE word = CmdQuit -> {0}
      [] word = CmdBalance -> {0}
      [] word = CmdPrice -> {1}
      [] word = CmdMarket -> {3}
      [] word = CmdLimit -> {4}
      [] word = CmdStop -> {5}
      [] word = CmdOrders -> {0, 1}
      [] word = CmdStatus -> {2}
      [] word = CmdCancel -> {2}

\* the positions of a command's numeric arguments (quantity, price, order id)
NumericArguments(word) ==
    CASE word = CmdMarket -> {4}
      [] word = CmdLimit -> {4, 5}
      [] word = CmdStop -> {4, 5, 6}
      [] word = CmdStatus -> {3}
      [] word = CmdCancel -> {3}
      [] OTHER -> {}

IsNumber(tok) ==
    LET ds == IF tok # << >> /\ tok[1] = "-" THEN Tail(tok) ELSE tok
    IN  ds # << >> /\ \A i \in DOMAIN ds : ds[i] \in {"0","1","2","3","4","5","6","7","8","9"}

\* a known command word with the wrong number of arguments, or with the
\* right number and a numeric argument that is no number
Malformed(line) ==
    /\ line # << >>
    /\ lower(line[1]) \in CommandWords
    /\ \/ Len(line) - 1 \notin Arities(lower(line[1]))
       \/ \E i \in NumericArguments(lower(line[1])) : ~ IsNumber(line[i])

UsageHints ==
    { "Usage: price <symbol>", "Usage: market <symbol> <side> <quantity>",
      "Usage: limit <symbol> <side> <quantity> <price>",
      "Usage: stop <symbol> <side> <quantity> <price> <stop_price>",
      "Usage: status <symbol> <order_id>", "Usage: cancel <symbol> <order_id>" }

\* C5: in the interactive shell every malformed command (a known command word
\* with the wrong number of arguments, the word alone included, or with a
\* non-numeric quantity, price or order id) prints a usage hint, makes no call
\* to the exchange client, and the loop goes on to the next command.
C5_MalformedCommandPrintsUsage ==
    (Typed /\ Malformed(op.line)) =>
        /\ Len(output) = 1 /\ output[1] \in UsageHints
        /\ calls = << >>
        /\ pc = "handled"

\* C6: in the interactive shell an error of any kind raised while a command
\* is handled is caught and reported for that command, and the loop goes on:
\* the loop ends only on 'quit' or on a keyboard interrupt.
C6_ErrorsNeverEndTheShell ==
    op.name \in {"command", "input"} =>
        /\ (result.kind = "raise" /\ result.exc.type # "KeyboardInterrupt") =>
              (pc = "handled" /\ output[Len(output)] = "Error")
        /\ pc = "exited" =>
              \/ [i \in DOMAIN op.line |-> lower(op.line[i])] = <<CmdQuit>>
              \/ result.kind = "raise" /\ result.exc.type = "KeyboardInterrupt"

C6_Witness ==
    /\ op.name = "command"
    /\ op.line # << >>
    /\ lower(op.line[1]) = CmdLimit
    /\ Len(calls) = 2
    /\ result.kind = "raise" /\ result.exc.type = "BinanceOrderException"
    /\ output = <<"Error">>
    /\ pc = "handled"

\* an orchestrator operation called directly has returned or raised
Returned == pc = "returned"

MethodOf(name) ==
    CASE name = "get_account_balance" -> "futures_account"
      [] name = "get_current_price" -> "futures_symbol_ticker"
      [] name = "get_symbol_info" -> "futures_exchange_info"
      [] name = "get_order_status" -> "futures_get_order"
      [] name = "cancel_order" -> "futures_cancel_order"
      [] name = "get_open_orders" -> "futures_get_open_orders"

\* C7 as stated: every orchestrator operation, the place-order operations
\* included, issues exactly one call to the exchange client per invocation
\* (read here for the invocations whose input passes validation).
C7_ExactlyOneCallPerOperation ==
    (Returned /\ ~ ValidationFailed) => Len(calls) = 1

\* C7 (amended): balance, price, symbol info, order status, cancel and list
\* open orders each issue exactly one call to the exchange client per
\* invocation.  A place-order operation issues no call when its validation
\* fails; otherwise it issues the symbol lookup and then, only if the lookup
\* succeeded, one order submission: two calls at most, one after the other.
\* Every call but the last was answered without error, and an operation whose
\* last call failed raises.
C7_CallsPerOperation ==
    Returned =>
        /\ IF op.name \in PlaceOps
           THEN /\ Len(calls) \in {0, 1, 2}
                /\ Len(calls) = 0 <=> ValidationFailed
                /\ Len(calls) >= 1 => calls[1].method = "futures_exchange_info"
                /\ Len(calls) = 2 => /\ calls[2].method = "futures_create_order"
                                     /\ LookupSucceeded(op.symbol)
                /\ Len(calls) = 1 =>
                       (result.kind = "raise" /\ ~ LookupSucceeded(op.symbol))
           ELSE Len(calls) = 1 /\ calls[1].method = MethodOf(op.name)
        /\ \A i \in DOMAIN calls : i < Len(calls) => calls[i].outcome = "ok"
        /\ (calls # << >> /\ calls[Len(calls)].outcome # "ok") => result.kind = "raise"

C7_Witness ==
    /\ Returned
    /\ op.name = "place_limit_order"
    /\ Len(calls) = 2
    /\ calls[1].method = "futures_exchange_info" /\ calls[1].outcome = "ok"
    /\ calls[2].method = "futures_create_order" /\ calls[2].outcome = "ok"
    /\ result.kind = "return"

\* the indices of the published entries named by the symbol, upper-cased
Matches(list, symbol) == {i \in DOMAIN list : list[i].symbol = upper(symbol)}

\* the results get_symbol_info can give for a symbol when the exchange
\* answers with the list
ResultsFor(symbol, list) ==
    {o.result : o \in {x \in get_symbol_info(symbol) :
                          x.calls[1].outcome = "ok" /\ x.calls[1].payload = list}}

\* C8: when the exchange answers, get_symbol_info(symbol) returns the (first)
\* published entry whose symbol equals the upper-cased input if there is one,
\* and fails with a validation error if there is none; spelling the input in
\* another letter case gives the same result.
C8_SymbolLookup ==
    (Returned /\ op.name = "get_symbol_info" /\ calls[1].outcome = "ok") =>
        LET list == calls[1].payload
            found == Matches(list, op.symbol)
        IN  /\ found # {} =>
                  /\ result.kind = "return"
                  /\ \E i \in found : /\ result.value[1] = list[i]
                                      /\ \A j \in found : i <= j
            /\ found = {} =>
                  result = Raise(Exc("ValueError", "Symbol not found or not active"))
            /\ \A other \in Symbols :
                  lower(other) = lower(op.symbol) => ResultsFor(other, list) = {result}

C8_Witness ==
    /\ Returned
    /\ op.name = "get_symbol_info"
    /\ op.symbol = <<"A","b">>
    /\ calls[1].outcome = "ok"
    /\ Len(calls[1].payload) = 2
    /\ calls[1].payload[1].symbol = <<"a","b">>
    /\ result = Return(calls[1].payload[2])

\* the symbol, side, quantity, prices and time-in-force a place-order
\* operation was given, wherever it was invoked from: a direct call, a line of
\* the interactive shell, or the command line of main()
Given ==
    IF op.name = "command"
    THEN [symbol |-> op.line[2], side |-> op.line[3],
          numbers |-> [i \in 1..(Len(op.line) - 3) |-> float(lower(op.line[i + 3]))[1]],
          time_in_force |-> None]
    ELSE IF op.name = "main_dispatch"
    THEN [symbol |-> args.symbol[1], side |-> args.side[1],
          numbers |-> <<args.quantity[1]>>
                      \o (IF args.type = "market" THEN << >> ELSE <<args.price[1]>>)
                      \o (IF args.type = "stop" THEN <<args.stop_price[1]>> ELSE << >>),
          time_in_force |-> None]
    ELSE [symbol |-> op.symbol, side |-> op.side,
          numbers |-> <<op.quantity>>
                      \o (IF op.name = "place_market_order" THEN << >> ELSE <<op.price>>)
                      \o (IF op.name = "place_stop_limit_order"
                          THEN <<op.stop_price>> ELSE << >>),
          time_in_force |-> op.time_in_force]

\* C9: an order submission reaches the exchange client only after the input
\* passed validation and only right after a symbol lookup of the same
\* operation that the exchange answered with a list holding the symbol; an
\* order for a symbol that is absent, or whose lookup failed, is never
\* submitted.
C9_SubmissionOnlyAfterLookup ==
    \A i \in Submissions :
        /\ i = 2
        /\ LookupSucceeded(Given.symbol)
        /\ upper(Given.side) \in {BUY, SELL}
        /\ \A k \in DOMAIN Given.numbers : Given.numbers[k] > 0
        /\ calls[i].params.symbol = upper(Given.symbol)

C9_Witness ==
    /\ op.name = "command"
    /\ Submissions = {2}
    /\ LookupSucceeded(op.line[2])
    /\ calls[2].params.type = "STOP"
    /\ result = NoResult
    /\ pc = "handled"

KindOf(name) ==
    CASE name = "place_market_order" -> "MARKET"
      [] name = "place_limit_order" -> "LIMIT"
      [] name = "place_stop_limit_order" -> "STOP"

\* C10: every order submission carries exactly the parameters of its kind,
\* with symbol and side upper-cased: MARKET has symbol, side, quantity (and
\* its type) and no time-in-force; LIMIT adds price and timeInForce;
\* STOP_LIMIT adds price, stopPrice and timeInForce.  timeInForce is GTC when
\* the caller gives none, as is always so for the interactive shell and the
\* one-shot command line.
C10_SubmittedParameters ==
    \A i \in Submissions :
        LET p == calls[i].params
            g == Given
        IN  /\ op.invoked # << >>
            /\ p.type = KindOf(op.invoked[Len(op.invoked)])
            /\ p.symbol = upper(g.symbol) /\ p.side = upper(g.side)
            /\ \A k \in DOMAIN p.symbol :
                  \A j \in DOMAIN Lowers : p.symbol[k] # Lowers[j]
            /\ p.side \in {BUY, SELL}
            /\ p.quantity = g.numbers[1]
            /\ p.type = "MARKET" =>
                  DOMAIN p = {"symbol", "side", "type", "quantity"}
            /\ p.type = "LIMIT" =>
                  /\ DOMAIN p = {"symbol", "side", "type", "quantity", "price",
                                 "timeInForce"}
                  /\ p.price = g.numbers[2]
            /\ p.type = "STOP" =>
                  /\ DOMAIN p = {"symbol", "side", "type", "quantity", "price",
                                 "stopPrice", "timeInForce"}
                  /\ p.price = g.numbers[2] /\ p.stopPrice = g.numbers[3]
            /\ p.type \in {"LIMIT", "STOP"} =>
                  /\ g.time_in_force = None => p.timeInForce = "GTC"
                  /\ g.time_in_force # None => p.timeInForce = g.time_in_force[1]
            /\ op.name \in {"command", "main_dispatch"} =>
                  g.time_in_force = None

C10_Witness ==
    /\ Returned
    /\ op.name = "place_stop_limit_order"
    /\ op.symbol = <<"a","b">> /\ op.side = <<"s","e","l","l">>
    /\ op.time_in_force = None
    /\ Submissions = {2}
    /\ calls[2].params = [symbol |-> <<"A","B">>, side |-> SELL, type |-> "STOP",
                          quantity |-> op.quantity, price |-> op.price,
                          stopPrice |-> op.stop_price, timeInForce |-> "GTC"]

\* the failures the exchange client reports: its own exception classes and
\* any other error of the call (a keyboard interrupt is the user's, not the
\* client's)
ReportedFailures == {"BinanceAPIException", "BinanceOrderException", "Exception"}

\* C11: when the exchange client reports a failure during an orchestrator
\* operation (balance, price, symbol info, place order, order status, cancel,
\* list open orders), the operation logs the failure and raises that same
\* error to its caller: it returns no result, and the error raised is the
\* client's, neither swallowed nor replaced.
C11_ClientFailureLoggedAndReraised ==
    Returned =>
        \A i \in DOMAIN calls :
            calls[i].outcome \in ReportedFailures =>
                /\ i = Len(calls)
                /\ result.kind = "raise" /\ result.value = << >>
                /\ result.exc.type = calls[i].outcome
                /\ result.exc.msg = calls[i].method
                /\ log # << >> /\ log[Len(log)].level = "ERROR"

C11_Witness ==
    /\ Returned
    /\ op.name = "place_limit_order"
    /\ Len(calls) = 2
    /\ calls[2].outcome = "BinanceOrderException"
    /\ result = Raise(Exc("BinanceOrderException", "futures_create_order"))
    /\ log[Len(log)] = Error("Binance order error")

\* the account payload that get_account_balance was answered with
AccountInfo == calls[1].payload[1]

BalanceReturned ==
    /\ Returned
    /\ op.name = "get_account_balance"
    /\ calls[1].outcome = "ok"

Field(d, k) == IF k \in DOMAIN d THEN d[k] ELSE "0"

Assets == IF "assets" \in DOMAIN AccountInfo THEN AccountInfo.assets ELSE << >>

\* the positions of the asset entries named USDT
UsdtEntries == {i \in DOMAIN Assets : "asset" \in DOMAIN Assets[i] /\ Assets[i].asset = "USDT"}

ExpectedSnapshot ==
    [total_balance |-> Field(AccountInfo, "totalWalletBalance"),
     available_balance |-> Field(AccountInfo, "availableBalance"),
     usdt_balance |->
         IF UsdtEntries = {} THEN "0"
         ELSE Field(Assets[CHOOSE i \in UsdtEntries : \A j \in UsdtEntries : i <= j],
                    "walletBalance")]

\* C12: for every account payload the exchange client returns,
\* get_account_balance returns a snapshot whose total_balance and
\* available_balance are the payload's totalWalletBalance and availableBalance
\* ('0' when absent) and whose usdt_balance is the walletBalance of the first
\* asset entry named USDT ('0' when there is none or it has no walletBalance).
C12_BalanceSnapshotProjection ==
    BalanceReturned => result = Return(ExpectedSnapshot)

\* the same for the payloads whose asset entries, up to the first one named
\* USDT, all name their asset: these are the payloads the projection is
\* computed for
AssetsNamed ==
    \A i \in DOMAIN Assets :
        (\A j \in UsdtEntries : i <= j) => "asset" \in DOMAIN Assets[i]

BalanceSnapshotOfNamedAssets ==
    BalanceReturned =>
        IF AssetsNamed THEN result = Return(ExpectedSnapshot)
        ELSE result = Raise(Exc("KeyError", "asset"))

\* an entry without a name ahead of the USDT entry: the scan for USDT fails
\* on it, and the failure is logged and raised like a failure of the client
C12_Witness ==
    /\ BalanceReturned
    /\ AccountInfo = [totalWalletBalance |-> "1000.00",
                      availableBalance |-> "900.00",
                      assets |-> <<[walletBalance |-> "5.00"],
                                   [asset |-> "USDT", walletBalance |-> "800.00"]>>]
    /\ result = Raise(Exc("KeyError", "asset"))
    /\ log = <<Error("Error getting account balance")>>

====
